---------------------------- MODULE Spec2Model ----------------------------
(***************************************************************************)
(* A model of packspec.js (src/unnamed/part_001, the current cli.js): the  *)
(* feature parser, the value resolver, the feature executor and the        *)
(* runner.  JavaScript strings are sequences of one-character strings, so  *)
(* that the regular expression, split, endsWith and toUpperCase are        *)
(* computed character by character.  `undefined` and the empty string are   *)
(* both <<>> for assign/property/skip: the code only tests these fields    *)
(* for truthiness.  The `text` field and the console output are not state  *)
(* any operation reads, and are left out.                                  *)
(***************************************************************************)
EXTENDS Integers, Sequences, FiniteSets, TLC

VARIABLES
    pc,        \* where the main program is: "start", "run", "done", "rejected"
    docs,      \* the *.yml documents found, each a sequence of raw entries
    specs,     \* the result of parseSpecs: sequence of [package, features, scope]
    heap,      \* the JavaScript objects: id -> [k, items]
    si,        \* testSpecs: index of the specification being run
    fi,        \* testSpec: index of the next feature of specs[si]
    passed,    \* testSpec: the `passed` counter
    success,   \* testSpecs: the `success` accumulator
    verdicts,  \* the value each completed testSpec returned
    log,       \* one record per testFeature call, in call order
    error,     \* the error the run was rejected with ("" when none)
    entry,     \* the raw entry handed to parseFeature (parser specification)
    parsed     \* what parseFeature returned for `entry`

vars == <<pc, docs, specs, heap, si, fi, passed, success, verdicts, log,
          error, entry, parsed>>

---------------------------------------------------------------------------
(* Characters and strings *)

LowerCh == <<"a","b","c","d","e","f","g","h","i","j","k","l","m",
             "n","o","p","q","r","s","t","u","v","w","x","y","z">>
UpperCh == <<"A","B","C","D","E","F","G","H","I","J","K","L","M",
             "N","O","P","Q","R","S","T","U","V","W","X","Y","Z">>

\* String.prototype.toUpperCase on one character
UpCh(c) ==
    IF \E i \in 1..Len(LowerCh) : LowerCh[i] = c
    THEN UpperCh[CHOOSE i \in 1..Len(LowerCh) : LowerCh[i] = c]
    ELSE c

\* String.prototype.toUpperCase
ToUpperCase(s) == [i \in 1..Len(s) |-> UpCh(s[i])]

\* s.slice(from - 1): the suffix of s starting at position from
Drop(s, from) == IF from > Len(s) THEN <<>> ELSE SubSeq(s, from, Len(s))

\* String.prototype.endsWith
EndsWith(s, t) ==
    Len(s) >= Len(t) /\ SubSeq(s, Len(s) - Len(t) + 1, Len(s)) = t

\* String.prototype.split on a one-character separator
RECURSIVE Split(_, _)
Split(s, sep) ==
    IF \E i \in 1..Len(s) : s[i] = sep
    THEN LET i == CHOOSE j \in 1..Len(s) :
                      s[j] = sep /\ \A h \in 1..(j - 1) : s[h] # sep
         IN  <<SubSeq(s, 1, i - 1)>> \o Split(Drop(s, i + 1), sep)
    ELSE <<s>>

\* Array.prototype.includes
Includes(seq, x) == \E i \in 1..Len(seq) : seq[i] = x

\* left.replace(/(_.)/g, match => match[1].toUpperCase())
RECURSIVE Camelize(_)
Camelize(s) ==
    IF Len(s) = 0 THEN <<>>
    ELSE IF s[1] = "_" /\ Len(s) >= 2
         THEN <<UpCh(s[2])>> \o Camelize(Drop(s, 3))
         ELSE <<s[1]>> \o Camelize(Tail(s))

---------------------------------------------------------------------------
(* Raw values: what yaml.safeLoad yields.  items is a sequence of          *)
(* [key, val]; a list element has the empty key.                           *)

RStr(s)      == [k |-> "str",  s |-> s,    items |-> <<>>]
RNum(s)      == [k |-> "num",  s |-> s,    items |-> <<>>]
RBool(s)     == [k |-> "bool", s |-> s,    items |-> <<>>]
RNull        == [k |-> "null", s |-> <<>>, items |-> <<>>]
RList(items) == [k |-> "list", s |-> <<>>,
                 items |-> [i \in 1..Len(items) |-> [key |-> <<>>, val |-> items[i]]]]
RMap(pairs)  == [k |-> "map",  s |-> <<>>, items |-> pairs]
Pair(key, val) == [key |-> key, val |-> val]

\* a reference marker {name: null}
RRef(name) == RMap(<<Pair(name, RNull)>>)

ERROR   == <<"E","R","R","O","R">>
ANY     == <<"A","N","Y">>
PACKAGE == <<"P","A","C","K","A","G","E">>

---------------------------------------------------------------------------
(* parseFeature *)

\* (?:([^=]*)=)?([^=].*)?$ matched against r, the optional groups tried
\* present first
MatchRest(r) ==
    LET hasEq == \E i \in 1..Len(r) : r[i] = "="
        i == IF hasEq
             THEN CHOOSE j \in 1..Len(r) :
                      r[j] = "=" /\ \A h \in 1..(j - 1) : r[h] # "="
             ELSE 0
        q == Drop(r, i + 1)
    IN  IF hasEq /\ (q = <<>> \/ q[1] # "=")
        THEN [ok |-> TRUE, assign |-> SubSeq(r, 1, i - 1), property |-> q]
        ELSE IF r = <<>> \/ r[1] # "="
             THEN [ok |-> TRUE, assign |-> <<>>, property |-> r]
             ELSE [ok |-> FALSE, assign |-> <<>>, property |-> <<>>]

\* the groups when (.*): ends at the colon at position c (c = 0: the group
\* (?:(.*):)? takes no part)
GroupsAt(skip, m) ==
    [ok |-> m.ok, skip |-> skip, assign |-> m.assign, property |-> m.property]

MatchAt(left, c) ==
    GroupsAt(IF c = 0 THEN <<>> ELSE SubSeq(left, 1, c - 1),
             MatchRest(Drop(left, c + 1)))

\* the greedy (.*) takes the last colon whose remainder matches, and the
\* group takes no part when no colon does; no match at all is `null`
LastMatch(left, at) ==
    IF \E c \in DOMAIN at : (c = 0 \/ left[c] = ":") /\ at[c].ok
    THEN at[CHOOSE c \in DOMAIN at :
                /\ (c = 0 \/ left[c] = ":") /\ at[c].ok
                /\ \A d \in DOMAIN at :
                       (d = 0 \/ left[d] = ":") /\ at[d].ok => d <= c]
    ELSE [ok |-> FALSE, skip |-> <<>>, assign |-> <<>>, property |-> <<>>]

\* /^(?:(.*):)?(?:([^=]*)=)?([^=].*)?$/g.exec(left)
MatchLeft(left) == LastMatch(left, [c \in 0..Len(left) |-> MatchAt(left, c)])

\* skip = (filters[0] === 'not') === (filters.includes('js'))
SkipOf(skip) ==
    IF skip = <<>> THEN FALSE
    ELSE LET filters == Split(skip, ":")
         IN  (filters[1] = <<"n","o","t">>) = Includes(filters, <<"j","s">>)

NoFeature ==
    [skip |-> FALSE, call |-> FALSE, assign |-> <<>>, property |-> <<>>,
     args |-> <<>>, kwargs |-> <<>>, result |-> RNull]

\* `for (const item of right)`: the items a for-of loop over `right` visits, or
\* a TypeError for a value that is not iterable
Iterate(right) ==
    CASE right.k = "list" ->
             [ok |-> TRUE, items |-> [i \in 1..Len(right.items) |-> right.items[i].val]]
      [] right.k = "str" ->
             [ok |-> TRUE, items |-> [i \in 1..Len(right.s) |-> RStr(<<right.s[i]>>)]]
      [] OTHER -> [ok |-> FALSE, items |-> <<>>]

\* kwargs[key] = val on an object kept as a sequence of pairs
PutPair(pairs, key, val) ==
    IF \E i \in 1..Len(pairs) : pairs[i].key = key
    THEN [i \in 1..Len(pairs) |->
             IF pairs[i].key = key THEN Pair(key, val) ELSE pairs[i]]
    ELSE Append(pairs, Pair(key, val))

\* lodash.isPlainObject(item) && lodash.size(item) === 1
IsSinglePair(item) == item.k = "map" /\ Len(item.items) = 1

\* the loop of lines 118-131 over the items of the right-hand side
RECURSIVE ScanItems(_, _)
ScanItems(items, acc) ==
    IF items = <<>> THEN acc
    ELSE LET item == Head(items)
             next ==
                 IF IsSinglePair(item) /\ item.items[1].key = <<"=","=">>
                 THEN [acc EXCEPT !.result = item.items[1].val]
                 ELSE IF IsSinglePair(item) /\ EndsWith(item.items[1].key, <<"=">>)
                 THEN [acc EXCEPT !.kwargs =
                          PutPair(acc.kwargs,
                                  SubSeq(item.items[1].key, 1, Len(item.items[1].key) - 1),
                                  item.items[1].val)]
                 ELSE [acc EXCEPT !.args = Append(acc.args, item)]
         IN  ScanItems(Tail(items), next)

\* call = true for a property without the trailing `==`
CallOf(property) == property # <<>> /\ ~EndsWith(property, <<"=","=">>)

\* lines 104-110: the property without its trailing `==`
PropertyOf(property) ==
    IF EndsWith(property, <<"=","=">>)
    THEN SubSeq(property, 1, Len(property) - 2)
    ELSE property

\* lines 96-132, given the match m of the left side
FeatureOf(m, right) ==
    IF ~m.ok \/ (m.assign = <<>> /\ m.property = <<>>)
    THEN [ok |-> FALSE, f |-> NoFeature]
    ELSE IF CallOf(m.property)
    THEN [ok |-> Iterate(right).ok,
          f  |-> IF Iterate(right).ok
                 THEN ScanItems(Iterate(right).items,
                                [NoFeature EXCEPT !.skip = SkipOf(m.skip),
                                                  !.call = TRUE,
                                                  !.assign = m.assign,
                                                  !.property = m.property])
                 ELSE NoFeature]
    ELSE [ok |-> TRUE,
          f  |-> [NoFeature EXCEPT !.skip = SkipOf(m.skip),
                                   !.assign = m.assign,
                                   !.property = PropertyOf(m.property),
                                   !.result = right]]

\* parseFeature({left: right}): [ok, f], ok = FALSE when it throws
parseFeature(left, right) == FeatureOf(MatchLeft(Camelize(left)), right)

---------------------------------------------------------------------------
(* Runtime values.  A value is flat: a primitive, a function of the module *)
(* under test, or a reference to an object of the heap.  === is equality   *)
(* of flat values: objects are equal when they are the same object.        *)

Str(s)   == [k |-> "str",   s |-> s,    id |-> 0]
Num(s)   == [k |-> "num",   s |-> s,    id |-> 0]
Bool(s)  == [k |-> "bool",  s |-> s,    id |-> 0]
Null     == [k |-> "null",  s |-> <<>>, id |-> 0]
Undef    == [k |-> "undef", s |-> <<>>, id |-> 0]
Fn(name) == [k |-> "fn",    s |-> name, id |-> 0]
Obj(id)  == [k |-> "obj",   s |-> <<>>, id |-> id]

\* the result of an evaluation that may throw
Ret(v, h)    == [ok |-> TRUE,  err |-> "",  v |-> v,     heap |-> h]
Throw(e, h)  == [ok |-> FALSE, err |-> e,   v |-> Undef, heap |-> h]

Digits == <<"0","1","2","3","4","5","6","7","8","9">>
IndexKey(i) == IF i <= Len(Digits) THEN <<Digits[i]>> ELSE <<"n">>

HasKey(items, name) == \E i \in 1..Len(items) : items[i].key = name
Lookup(items, name) ==
    items[CHOOSE i \in 1..Len(items) : items[i].key = name].val

\* name in owner, for an object of the heap
Has(h, v, name) == v.k = "obj" /\ HasKey(h[v.id].items, name)

\* owner[name]: a TypeError on undefined and null, undefined for a missing
\* property and for the properties of primitives and functions
Get(h, v, name) ==
    IF v.k \in {"undef", "null"} THEN Throw("TypeError", h)
    ELSE IF Has(h, v, name) THEN Ret(Lookup(h[v.id].items, name), h)
    ELSE Ret(Undef, h)

\* a store that keeps the value a name already holds: the first write wins
MutSet(h, v, name, val) ==
    IF v.k \in {"undef", "null"} THEN Throw("TypeError", h)
    ELSE IF v.k = "obj" /\ ~HasKey(h[v.id].items, name)
    THEN Ret(val, [h EXCEPT ![v.id].items = PutPair(@, name, val)])
    ELSE Ret(val, h)

\* owner[name] = val (sloppy mode: silently nothing on a primitive)
Set(h, v, name, val) ==
    IF v.k \in {"undef", "null"} THEN Throw("TypeError", h)
    ELSE IF v.k = "obj"
    THEN Ret(val, [h EXCEPT ![v.id].items = PutPair(@, name, val)])
    ELSE Ret(val, h)

\* for (const name of names.slice(0, -1)) owner = owner[name]
RECURSIVE WalkOwner(_, _, _)
WalkOwner(h, owner, names) ==
    IF Len(names) <= 1 THEN Ret(owner, h)
    ELSE LET g == Get(h, owner, names[1])
         IN  IF g.ok THEN WalkOwner(h, g.v, Tail(names)) ELSE g

\* member accesses .b.c applied to a value
RECURSIVE WalkAll(_, _, _)
WalkAll(h, v, names) ==
    IF names = <<>> THEN Ret(v, h)
    ELSE LET g == Get(h, v, names[1])
         IN  IF g.ok THEN WalkAll(h, g.v, Tail(names)) ELSE g

\* (new vm.Script(key)).runInNewContext(scope) for a key that is a dotted
\* path: a ReferenceError when the first name is not in the context
runScript(key, h, scope) ==
    IF key = <<>> THEN Ret(Undef, h)
    ELSE LET names == Split(key, ".")
         IN  IF ~Has(h, Obj(scope), names[1]) THEN Throw("ReferenceError", h)
             ELSE WalkAll(h, Lookup(h[scope].items, names[1]), Tail(names))

\* a reference marker: a plain object of size 1 whose value is null
IsMarker(value) ==
    value.k = "map" /\ Len(value.items) = 1 /\ value.items[1].val.k = "null"

\* a yaml scalar as a runtime value
Scalar(value) ==
    CASE value.k = "str"  -> Str(value.s)
      [] value.k = "num"  -> Num(value.s)
      [] value.k = "bool" -> Bool(value.s)
      [] OTHER            -> Null

Items(ok, err, items, h) == [ok |-> ok, err |-> err, items |-> items, heap |-> h]

RECURSIVE evalValue(_, _, _)
RECURSIVE evalItems(_, _, _, _, _)

\* one turn of the loops of lines 275-281, r the element resolved
ItemDone(r, items, isList, done, scope) ==
    IF ~r.ok THEN Items(FALSE, r.err, done, r.heap)
    ELSE evalItems(items, isList,
                   Append(done, Pair(IF isList THEN IndexKey(Len(done) + 1)
                                     ELSE items[Len(done) + 1].key,
                                     r.v)),
                   r.heap, scope)

\* the loops of lines 275-281: every element is resolved in turn
evalItems(items, isList, done, h, scope) ==
    IF Len(done) = Len(items) THEN Items(TRUE, "", done, h)
    ELSE ItemDone(evalValue(items[Len(done) + 1].val, h, scope),
                  items, isList, done, scope)

\* the clone of a list or a plain object, r its elements resolved
Container(k, r) ==
    IF ~r.ok THEN Throw(r.err, r.heap)
    ELSE Ret(Obj(Len(r.heap) + 1), Append(r.heap, [k |-> k, items |-> r.items]))

\* evalValue(value, scope): the clone of value with its markers resolved
evalValue(value, h, scope) ==
    IF IsMarker(value) THEN runScript(value.items[1].key, h, scope)
    ELSE IF value.k \in {"map", "list"}
    THEN Container(value.k, evalItems(value.items, value.k = "list", <<>>, h, scope))
    ELSE Ret(Scalar(value), h)

Evaluated(ok, err, args, kwargs, result, h) ==
    [ok |-> ok, err |-> err, args |-> args, kwargs |-> kwargs,
     result |-> result, heap |-> h]

\* line 265, a and kw the resolved args and kwargs
EvalResult(feature, a, kw, r) ==
    Evaluated(r.ok, r.err, a.v, kw.v, r.v, r.heap)

EvalKwargs(feature, a, kw, scope) ==
    IF ~kw.ok THEN Evaluated(FALSE, kw.err, Undef, Undef, Undef, kw.heap)
    ELSE EvalResult(feature, a, kw, evalValue(feature.result, kw.heap, scope))

EvalArgs(feature, a, scope) ==
    IF ~a.ok THEN Evaluated(FALSE, a.err, Undef, Undef, Undef, a.heap)
    ELSE EvalKwargs(feature, a,
                    IF feature.call
                    THEN evalValue(RMap(feature.kwargs), a.heap, scope)
                    ELSE Ret(Undef, a.heap),
                    scope)

\* evalFeature(feature, scope): args and kwargs only for a call, then result
evalFeature(feature, h, scope) ==
    EvalArgs(feature,
             IF feature.call THEN evalValue(RList(feature.args), h, scope)
             ELSE Ret(Undef, h),
             scope)

---------------------------------------------------------------------------
(* The packages under test, loaded by require(packageName).  Their objects *)
(* are in the heap from the start; their functions are named by Fn.        *)

Alpha == <<"a","l","p","h","a">>
Beta  == <<"b","e","t","a">>

\* the objects the modules hold: 1 is alpha.data = [1], 2 is alpha.conf = {k: "a"}
ModuleHeap ==
    << [k |-> "list", items |-> <<Pair(IndexKey(1), Num(<<"1">>))>>],
       [k |-> "map",  items |-> <<Pair(<<"k">>, Str(<<"a">>))>>] >>

\* the exports of a package
ModuleExports(package) ==
    IF package = Alpha
    THEN << Pair(<<"n","a","m","e">>, Str(<<"a">>)),
            Pair(<<"d","a","t","a">>, Obj(1)),
            Pair(<<"c","o","n","f">>, Obj(2)),
            Pair(<<"f","l","a","g">>, Bool(<<"t">>)),
            Pair(<<"n","o","n","e">>, Null),
            Pair(<<"e","c","h","o">>, Fn(<<"e","c","h","o">>)),
            Pair(<<"f","a","i","l">>, Fn(<<"f","a","i","l">>)),
            Pair(<<"T","h","i","n","g">>, Fn(<<"T","h","i","n","g">>)),
            Pair(<<"M","A","X">>, Num(<<"9">>)) >>
    ELSE << Pair(<<"n","a","m","e">>, Str(<<"b">>)),
            Pair(<<"e","c","h","o">>, Fn(<<"e","c","h","o">>)),
            Pair(<<"f","a","i","l">>, Fn(<<"f","a","i","l">>)) >>

Packages == {Alpha, Beta}

FirstArg(args) == IF args = <<>> THEN Undef ELSE args[1]

\* new property(...args) and property.bind(owner)(...args) for the functions
\* of the packages: echo returns its argument, fail throws, Thing is a class
\* whose constructor throws without an argument
Invoke(property, isNew, args, h) ==
    IF property.k # "fn" THEN Throw("TypeError", h)
    ELSE CASE property.s = <<"e","c","h","o">> ->
                  IF isNew /\ FirstArg(args).k # "obj"
                  THEN Ret(Obj(Len(h) + 1), Append(h, [k |-> "map", items |-> <<>>]))
                  ELSE Ret(FirstArg(args), h)
           [] property.s = <<"T","h","i","n","g">> ->
                  IF ~isNew \/ args = <<>> THEN Throw("TypeError", h)
                  ELSE Ret(Obj(Len(h) + 1),
                           Append(h, [k |-> "map",
                                      items |-> <<Pair(<<"v">>, FirstArg(args))>>]))
           [] OTHER -> Throw("Error", h)

---------------------------------------------------------------------------
(* testFeature *)

\* lodash.size
Size(h, v) ==
    CASE v.k = "obj" -> Len(h[v.id].items)
      [] v.k = "str" -> Len(v.s)
      [] OTHER       -> 0

\* [...array]: the elements of an array of the heap
Spread(h, v) ==
    IF v.k = "obj" THEN [i \in 1..Len(h[v.id].items) |-> h[v.id].items[i].val]
    ELSE <<>>

LastOf(names) == names[Len(names)]

\* firstLetter === firstLetter.toUpperCase()
IsConstructorName(lastName) == lastName[1] = UpCh(lastName[1])

\* lastName === lastName.toUpperCase()
IsConstantName(lastName) == lastName = ToUpperCase(lastName)

Executed(ok, v, h) == [ok |-> ok, v |-> v, heap |-> h]

\* lines 212-215: [...feature.args], and the kwargs pushed when there are any
CallArgs(h, ev) ==
    Spread(h, ev.args) \o (IF Size(h, ev.kwargs) > 0 THEN <<ev.kwargs>> ELSE <<>>)

\* lines 216-220, r what the call or the construction gave
Called(r, h) == Executed(r.ok, r.v, IF r.ok THEN r.heap ELSE h)

\* lines 209-223, g the property read from its owner
Operate(feature, lastName, g, args, h) ==
    IF ~g.ok THEN Executed(FALSE, Undef, h)
    ELSE IF ~feature.call THEN Executed(TRUE, g.v, h)
    ELSE IF lastName = <<>> THEN Executed(FALSE, Undef, h)
    ELSE Called(Invoke(g.v, IsConstructorName(lastName), args, h), h)

\* owner[lastName] for the owner w the walk gave
Member(h, w, lastName) == IF w.ok THEN Get(h, w.v, lastName) ELSE w

\* lines 201-227: the body of the try block; ok = FALSE when it throws
Execute(feature, ev, h, scope) ==
    Operate(feature, LastOf(Split(feature.property, ".")),
            Member(h, WalkOwner(h, Obj(scope), Split(feature.property, ".")),
                   LastOf(Split(feature.property, "."))),
            CallArgs(h, ev), h)

\* the guard with its second test inverted: lastName !== lastName.toUpperCase()
MutIsBoundConstant(bound, lastName) == bound # Undef /\ ~IsConstantName(lastName)

\* line 237: owner[lastName] !== undefined && lastName === lastName.toUpperCase()
IsBoundConstant(bound, lastName) == bound # Undef /\ IsConstantName(lastName)

\* what a testFeature call did
Outcome(status, err, h, result, args, expected, bound) ==
    [status |-> status, err |-> err, heap |-> h, result |-> result,
     args |-> args, expected |-> expected, bound |-> bound]

\* line 244
Compare(result, expected) ==
    IF expected # Null THEN result = expected ELSE result # Str(ERROR)

\* lines 243-255, st what the assignment gave
Verdict(st, result, args, expected, h, assigned) ==
    IF ~st.ok THEN Outcome("raised", st.err, h, result, args, expected, FALSE)
    ELSE Outcome(IF Compare(result, expected) THEN "passed" ELSE "failed",
                 "", st.heap, result, args, expected, assigned)

\* lines 237-240, g the value the target holds
Bind(h, w, g, lastName, result) ==
    IF ~g.ok THEN Throw("TypeError", h)
    ELSE IF IsBoundConstant(g.v, lastName) THEN Throw("ConstantError", h)
    ELSE Set(h, w.v, lastName, result)

\* lines 230-241, w the owner the walk gave
Assign(h, w, lastName, result) ==
    IF ~w.ok THEN Throw("TypeError", h)
    ELSE Bind(h, w, Get(h, w.v, lastName), lastName, result)

\* lines 229-256, result the outcome of the operation
AssignAndCompare(feature, result, args, expected, h, scope) ==
    Verdict(IF feature.assign = <<>> THEN Ret(result, h)
            ELSE Assign(h, WalkOwner(h, Obj(scope), Split(feature.assign, ".")),
                        LastOf(Split(feature.assign, ".")), result),
            result, args, expected, h, feature.assign # <<>>)

\* lines 200-256, x what the try block gave; the arguments logged are the
\* resolved ones, args and then kwargs
Finish(feature, ev, x, scope) ==
    AssignAndCompare(feature, IF x.ok THEN x.v ELSE Str(ERROR),
                     IF feature.call THEN CallArgs(ev.heap, ev) ELSE <<>>,
                     ev.result, x.heap, scope)

\* lines 198-256, ev the feature evalFeature returned
Run(feature, ev, scope) ==
    IF ~ev.ok THEN Outcome("raised", ev.err, ev.heap, Undef, <<>>, Undef, FALSE)
    ELSE Finish(feature, ev,
                IF feature.property = <<>>
                THEN Executed(TRUE, ev.result, ev.heap)
                ELSE Execute(feature, ev, ev.heap, scope),
                scope)

\* testFeature without the early return of lines 189-194
MutTestFeature(feature, h, scope) ==
    Run(feature, evalFeature(feature, h, scope), scope)

\* testFeature(feature, scope)
testFeature(feature, h, scope) ==
    IF feature.skip
    THEN Outcome("skipped", "", h, Undef, <<>>, Undef, FALSE)
    ELSE Run(feature, evalFeature(feature, h, scope), scope)

---------------------------------------------------------------------------
(* parseSpec and parseSpecs.  No packspec.js hook module is present, so    *)
(* hookmap stays empty.                                                    *)

Entry(left, right) == [left |-> left, right |-> right]

ParseEntry(e) == parseFeature(e.left, e.right)

NoSpec == [package |-> <<>>, features |-> <<>>, scope |-> 0]

Parsed(status, err, spec, h) ==
    [status |-> status, err |-> err, spec |-> spec, heap |-> h]

\* lines 82-85
Load(name, features, h) ==
    IF ~(name.k = "str" /\ name.s \in Packages)
    THEN Parsed("throw", "ModuleNotFound", NoSpec, h)
    ELSE Parsed("ok", "",
                [package |-> name.s, features |-> features, scope |-> Len(h) + 1],
                Append(h, [k |-> "map", items |-> ModuleExports(name.s)]))

\* lines 64-85, ps what parseFeature gave for each entry of the document
SpecOf(ps, h) ==
    IF ps = <<>> \/ ~ps[1].ok \/ ps[1].f.assign # PACKAGE \/ ps[1].f.skip
    THEN Parsed("null", "", NoSpec, h)
    ELSE IF \E i \in 1..Len(ps) : ~ps[i].ok
    THEN Parsed("throw", "TypeError", NoSpec, h)
    ELSE Load(ps[1].f.result, [i \in 1..Len(ps) |-> ps[i].f], h)

\* parseSpec(spec): status "null" (not a specification), "throw" or "ok"
parseSpec(doc, h) == SpecOf([i \in 1..Len(doc) |-> ParseEntry(doc[i])], h)

\* the order of the code units of the characters package names are made of
Alphabet == UpperCh \o <<"_">> \o LowerCh
Rank(c) == IF \E i \in 1..Len(Alphabet) : Alphabet[i] = c
           THEN CHOOSE i \in 1..Len(Alphabet) : Alphabet[i] = c
           ELSE 0

\* s < t for strings, as Array.prototype.sort orders them
RECURSIVE Less(_, _)
Less(s, t) ==
    IF t = <<>> THEN FALSE
    ELSE IF s = <<>> THEN TRUE
    ELSE IF s[1] # t[1] THEN Rank(s[1]) < Rank(t[1])
    ELSE Less(Tail(s), Tail(t))

\* Object.keys(specmap).sort().map(key => specmap[key])
SortSpecs(specmap) ==
    [i \in 1..Len(specmap) |->
        specmap[CHOOSE j \in 1..Len(specmap) :
            Cardinality({m \in 1..Len(specmap) :
                Less(specmap[m].package, specmap[j].package)}) = i - 1]]

\* lines 31-36: a new package is added, a known one gets the features appended
Merge(specmap, spec) ==
    IF \E i \in 1..Len(specmap) : specmap[i].package = spec.package
    THEN [i \in 1..Len(specmap) |->
             IF specmap[i].package = spec.package
             THEN [specmap[i] EXCEPT !.features = @ \o spec.features]
             ELSE specmap[i]]
    ELSE Append(specmap, spec)

Specs(ok, err, list, h) == [ok |-> ok, err |-> err, specs |-> list, heap |-> h]

RECURSIVE ParseLoop(_, _, _)

\* lines 29-36, r what parseSpec returned for the document
Collect(r, rest, specmap, h) ==
    CASE r.status = "throw" -> Specs(FALSE, r.err, <<>>, h)
      [] r.status = "null"  -> ParseLoop(rest, specmap, h)
      [] OTHER              -> ParseLoop(rest, Merge(specmap, r.spec), r.heap)

\* lines 27-37 and 49
ParseLoop(ds, specmap, h) ==
    IF ds = <<>> THEN Specs(TRUE, "", SortSpecs(specmap), h)
    ELSE Collect(parseSpec(Head(ds), h), Tail(ds), specmap, h)

\* parseSpecs(path), for the documents found under path
parseSpecs(ds, h) == ParseLoop(ds, <<>>, h)

---------------------------------------------------------------------------
(* The documents the runs are given *)

MaxDocs == 2
MaxBody == 3

DeclAlpha == Entry(<<"P","A","C","K","A","G","E","=">>, RStr(Alpha))
DeclBeta  == Entry(<<"P","A","C","K","A","G","E","=">>, RStr(Beta))

Decls == {DeclAlpha, DeclBeta}

\* x= "a"
BindA == Entry(<<"x","=">>, RStr(<<"a">>))
\* x=echo ["b"]
BindB == Entry(<<"x","=","e","c","h","o">>, RList(<<RStr(<<"b">>)>>))
\* echo [{x: null}, {"k=": {x: null}}, {"==": "b"}]
UseX == Entry(<<"e","c","h","o">>,
              RList(<<RRef(<<"x">>),
                      RMap(<<Pair(<<"k","=">>, RRef(<<"x">>))>>),
                      RMap(<<Pair(<<"=","=">>, RStr(<<"b">>))>>)>>))
\* py:x= "b", skipped for js
SkipBind == Entry(<<"p","y",":","x","=">>, RStr(<<"b">>))
\* name== {x: null}
ReadName == Entry(<<"n","a","m","e","=","=">>, RRef(<<"x">>))
\* name 1: a call whose right-hand side cannot be iterated
BadCall == Entry(<<"n","a","m","e">>, RNum(<<"1">>))

Catalogue == {BindA, BindB, UseX, SkipBind, ReadName, BadCall}

\* the number of body entries of the first i documents
RECURSIVE Total(_, _)
Total(lens, i) == IF i = 0 THEN 0 ELSE lens[i] + Total(lens, i - 1)

\* the documents with declarations ds and bodies of lengths lens cut from body
Assemble(ds, lens, body) ==
    [i \in 1..Len(ds) |->
        <<ds[i]>> \o SubSeq(body, Total(lens, i - 1) + 1, Total(lens, i))]

\* at most MaxDocs documents, a declaration each, with at most MaxBody other
\* entries in all
IsInput(ds) ==
    \E n \in 1..MaxDocs : \E lens \in [1..n -> 0..MaxBody] :
        /\ Total(lens, n) <= MaxBody
        /\ \E decls \in [1..n -> Decls] :
               \E body \in [1..Total(lens, n) -> Catalogue] :
                   ds = Assemble(decls, lens, body)

---------------------------------------------------------------------------
(* The main program: parseSpecs(path).then(testSpecs) *)

NoEntry == Entry(<<>>, RNull)
NoParse == [ok |-> FALSE, f |-> NoFeature]

Idle ==
    /\ specs = <<>>
    /\ heap = ModuleHeap
    /\ si = 1
    /\ fi = 1
    /\ passed = 0
    /\ success = TRUE
    /\ verdicts = <<>>
    /\ log = <<>>
    /\ error = ""

Init ==
    /\ pc = "start"
    /\ IsInput(docs)
    /\ entry = NoEntry
    /\ parsed = NoParse
    /\ Idle

\* parseSpecs resolves with r.specs, or rejects
Resolves(r) ==
    /\ r.ok
    /\ specs' = r.specs
    /\ heap' = r.heap
    /\ pc' = "run"
    /\ si' = 1
    /\ fi' = 1
    /\ passed' = 0
    /\ success' = TRUE
    /\ UNCHANGED <<docs, verdicts, log, error, entry, parsed>>

Rejects(r) ==
    /\ ~r.ok
    /\ pc' = "rejected"
    /\ error' = r.err
    /\ UNCHANGED <<docs, specs, heap, si, fi, passed, success, verdicts, log,
                   entry, parsed>>

\* parseSpecs resolves and testSpecs starts
ParseSpecs == pc = "start" /\ Resolves(parseSpecs(docs, heap))

\* parseSpecs rejects: testSpecs is never called
ParseSpecsRejects == pc = "start" /\ Rejects(parseSpecs(docs, heap))

Running == pc = "run" /\ si <= Len(specs)
InSpec  == Running /\ fi <= Len(specs[si].features)

Current == specs[si].features[fi]

\* the call of testFeature the loop of testSpec is about to make
Call == testFeature(Current, heap, specs[si].scope)

LogEntry(o) ==
    [spec |-> si, index |-> fi, feature |-> Current, status |-> o.status,
     err |-> o.err, result |-> o.result, args |-> o.args,
     expected |-> o.expected, bound |-> o.bound]

\* a counter that counts every feature, whatever testFeature returned
MutIncrement(status) == 1

\* passed += <boolean>: true counts 1, false counts 0
Increment(status) == IF status = "failed" THEN 0 ELSE 1

Returns(o) ==
    /\ o.status # "raised"
    /\ heap' = o.heap
    /\ passed' = passed + Increment(o.status)
    /\ fi' = fi + 1
    /\ log' = Append(log, LogEntry(o))
    /\ UNCHANGED <<pc, docs, specs, si, success, verdicts, error, entry, parsed>>

Raises(o) ==
    /\ o.status = "raised"
    /\ heap' = o.heap
    /\ pc' = "rejected"
    /\ error' = o.err
    /\ log' = Append(log, LogEntry(o))
    /\ UNCHANGED <<docs, specs, si, fi, passed, success, verdicts, entry, parsed>>

\* passed += await testFeature(feature, spec.scope)
TestFeatureReturns == InSpec /\ Returns(Call)

\* testFeature throws: testSpec and testSpecs reject with its error
TestFeatureRaises == InSpec /\ Raises(Call)

\* testSpec returns passed === amount; testSpecs folds it into success
TestSpecReturns ==
    /\ Running
    /\ fi > Len(specs[si].features)
    /\ verdicts' = Append(verdicts, passed = Len(specs[si].features))
    /\ success' = (success /\ passed = Len(specs[si].features))
    /\ si' = si + 1
    /\ fi' = 1
    /\ passed' = 0
    /\ UNCHANGED <<pc, docs, specs, heap, log, error, entry, parsed>>

\* testSpecs returns success
TestSpecsReturns ==
    /\ pc = "run"
    /\ si > Len(specs)
    /\ pc' = "done"
    /\ UNCHANGED <<docs, specs, heap, si, fi, passed, success, verdicts, log,
                   error, entry, parsed>>

Next ==
    \/ ParseSpecs
    \/ ParseSpecsRejects
    \/ TestFeatureReturns
    \/ TestFeatureRaises
    \/ TestSpecReturns
    \/ TestSpecsReturns

Spec == Init /\ [][Next]_vars

---------------------------------------------------------------------------
(* One feature against the alpha package: every shape of key and of        *)
(* right-hand side, in a document of its own after the declaration.        *)

NameP  == <<"n","a","m","e">>
DataP  == <<"d","a","t","a">>
ConfP  == <<"c","o","n","f">>
FlagP  == <<"f","l","a","g">>
NoneP  == <<"n","o","n","e">>
ZipP   == <<"z","i","p">>
ConfKP == <<"c","o","n","f",".","k">>
ZipKP  == <<"z","i","p",".","k">>
EchoP  == <<"e","c","h","o">>
FailP  == <<"f","a","i","l">>
ThingP == <<"T","h","i","n","g">>
MaxP   == <<"M","A","X">>
EqEq   == <<"=","=">>

SkipPrefixes == {<<>>, <<"p","y",":">>, <<"j","s",":">>}

AssignPrefixes ==
    {<<>>} \cup {a \o <<"=">> : a \in {<<"x">>, MaxP, ThingP, ConfKP, ZipKP}}

ReadPaths == {NameP, DataP, ConfP, FlagP, NoneP, ZipP, ConfKP, ZipKP}

Operands == {EchoP, FailP, ThingP, ZipP, NameP}

\* the literals and markers a feature is compared against
Expected ==
    { RStr(<<"a">>), RStr(<<"b">>), RNum(<<"1">>), RBool(<<"t">>), RNull,
      RList(<<RNum(<<"1">>)>>), RMap(<<Pair(<<"k">>, RStr(<<"a">>))>>),
      RStr(ERROR), RStr(ANY),
      RRef(NameP), RRef(DataP), RRef(ZipP), RList(<<RRef(NameP)>>) }

\* the positional and keyword items of a call
ArgLists ==
    { <<>>, <<RStr(<<"a">>)>>, <<RRef(NameP)>>, <<RRef(ZipP)>>,
      <<RStr(<<"a">>), RMap(<<Pair(<<"k","=">>, RStr(<<"b">>))>>)>>,
      <<RMap(<<Pair(<<"k","=">>, RNull)>>)>> }

\* the {"==": expected} item of a call
ExpectItems ==
    {<<>>} \cup {<<RMap(<<Pair(EqEq, e)>>)>> :
                    e \in {RStr(<<"a">>), RStr(ERROR), RStr(ANY)}}

CallRights ==
    {RList(a \o x) : a \in ArgLists, x \in ExpectItems}
        \cup {RStr(<<"a","b">>), RNum(<<"1">>)}

FeatureEntries ==
    {Entry(sp \o ap \o path \o EqEq, e) :
        sp \in SkipPrefixes, ap \in AssignPrefixes, path \in ReadPaths, e \in Expected}
    \cup {Entry(sp \o ap, e) :
        sp \in SkipPrefixes, ap \in AssignPrefixes, e \in Expected}
    \cup {Entry(sp \o ap \o op, r) :
        sp \in SkipPrefixes, ap \in AssignPrefixes, op \in Operands, r \in CallRights}

InitFeature ==
    /\ pc = "start"
    /\ docs \in {<<<<DeclAlpha, e>>>> : e \in FeatureEntries}
    /\ entry = NoEntry
    /\ parsed = NoParse
    /\ Idle

SpecFeature == InitFeature /\ [][Next]_vars

---------------------------------------------------------------------------
(* parseFeature alone *)

ParseLefts ==
    {sp \o ap \o path \o eq :
        sp \in {<<>>, <<"p","y",":">>, <<"j","s",":">>,
                <<"n","o","t",":","j","s",":">>, <<"n","o","t",":","p","y",":">>},
        ap \in {<<>>, <<"x","=">>, <<"a",".","b","=">>, PACKAGE \o <<"=">>},
        path \in {<<>>, NameP, <<"m","y","_","n","a","m","e">>, ConfKP, ThingP},
        eq \in {<<>>, EqEq}}

ParseRights ==
    { RStr(<<"a","b">>), RNum(<<"1">>), RBool(<<"t">>), RNull,
      RMap(<<Pair(<<"k">>, RStr(<<"a">>))>>), RRef(<<"x">>),
      RList(<<>>), RList(<<RStr(<<"a">>)>>),
      RList(<<RStr(<<"a">>), RMap(<<Pair(EqEq, RStr(<<"b">>))>>)>>),
      RList(<<RRef(<<"x">>), RMap(<<Pair(<<"k","=">>, RStr(<<"b">>))>>),
              RMap(<<Pair(<<"k","=">>, RStr(<<"c">>))>>),
              RMap(<<Pair(<<"k">>, RStr(<<"a">>)), Pair(<<"j","=">>, RNull)>>)>>) }

InitParse ==
    /\ pc = "parse"
    /\ docs = <<>>
    /\ entry \in {Entry(l, r) : l \in ParseLefts, r \in ParseRights}
    /\ parsed = NoParse
    /\ Idle

\* parseFeature(entry)
ParseFeature ==
    /\ pc = "parse"
    /\ parsed' = ParseEntry(entry)
    /\ pc' = "parsed"
    /\ UNCHANGED <<docs, specs, heap, si, fi, passed, success, verdicts, log,
                   error, entry>>

NextParse == ParseFeature

SpecParse == InitParse /\ [][NextParse]_vars

---------------------------------------------------------------------------
(* Properties of testFeature, stated over the feature the loop of testSpec *)
(* is about to run and over the log of the calls made so far.              *)

\* a raw value holding no reference marker
RECURSIVE IsLiteral(_)
IsLiteral(raw) ==
    /\ ~IsMarker(raw)
    /\ \A i \in 1..Len(raw.items) : IsLiteral(raw.items[i].val)

\* deep equality of a runtime value and a raw literal
RECURSIVE DeepEqual(_, _, _)
DeepEqual(h, v, raw) ==
    IF raw.k \in {"list", "map"}
    THEN /\ v.k = "obj"
         /\ h[v.id].k = raw.k
         /\ Len(h[v.id].items) = Len(raw.items)
         /\ \A i \in 1..Len(raw.items) :
               LET key == IF raw.k = "list" THEN IndexKey(i) ELSE raw.items[i].key
               IN  /\ HasKey(h[v.id].items, key)
                   /\ DeepEqual(h, Lookup(h[v.id].items, key), raw.items[i].val)
    ELSE v = Scalar(raw)

\* the value the scope of specification s holds at a dotted path
StoredAt(s, path) == WalkAll(heap, Obj(specs[s].scope), Split(path, "."))

\* a property read compared with a literal, with nothing assigned; the
\* literal is not null, which is also what an entry without an expected
\* value has
IsLiteralRead(e) ==
    /\ ~e.feature.skip
    /\ e.feature.result.k # "null"
    /\ ~e.feature.call
    /\ e.feature.property # <<>>
    /\ e.feature.assign = <<>>
    /\ IsLiteral(e.feature.result)
    /\ StoredAt(e.spec, e.feature.property).ok
    /\ StoredAt(e.spec, e.feature.property).v # Undef

\* C1: a non-skipped property read with a literal expected value passes when
\* the value stored at the property path is deep-equal to the expected value,
\* and fails when it is not.
C1_PassIffDeepEqual ==
    \A i \in 1..Len(log) :
        IsLiteralRead(log[i]) =>
            log[i].status =
                IF DeepEqual(heap, StoredAt(log[i].spec, log[i].feature.property).v,
                             log[i].feature.result)
                THEN "passed" ELSE "failed"

\* C2: a non-skipped feature whose expected value is the ANY sentinel passes
\* if and only if the outcome of its operation is not ERROR.
C2_AnyPassesUnlessError ==
    \A i \in 1..Len(log) :
        (/\ ~log[i].feature.skip
         /\ log[i].feature.result = RStr(ANY)
         /\ log[i].status \in {"passed", "failed"})
            => (log[i].status = "passed") = (log[i].result # Str(ERROR))

\* C3: testFeature raises nothing but the constant error, and a feature whose
\* outcome is ERROR fails unless its expected value is the literal ERROR.
C3_ExceptionsCaptured ==
    \A i \in 1..Len(log) :
        ~log[i].feature.skip =>
            /\ log[i].status = "raised" => log[i].err = "ConstantError"
            /\ (log[i].status # "raised" /\ log[i].result = Str(ERROR)) =>
                   log[i].status =
                       IF log[i].feature.result = RStr(ERROR)
                       THEN "passed" ELSE "failed"

\* the names of the assign path of the feature about to run, and its owner
AssignNames == Split(Current.assign, ".")
AssignOwner == WalkOwner(heap, Obj(specs[si].scope), AssignNames)

\* the value the heap h holds at the assign target of the feature about to run
TargetIn(h) == Get(h, AssignOwner.v, LastOf(AssignNames)).v

\* the assign target of the feature about to run is bound
TargetBound == AssignOwner.ok /\ AssignOwner.v.k = "obj" /\ TargetIn(heap) # Undef

IsUpperLetter(c) == \E i \in 1..Len(UpperCh) : UpperCh[i] = c
IsLowerLetter(c) == \E i \in 1..Len(LowerCh) : LowerCh[i] = c

\* the feature about to run assigns, and is not skipped
Assigning == InSpec /\ ~Current.skip /\ Current.assign # <<>>

\* testFeature rejects with the error e and leaves the assign target alone
AbortsWith(e) ==
    /\ pc' = "rejected"
    /\ error' = e
    /\ TargetIn(heap') = TargetIn(heap)

C8_SkipLeavesScope ==
    [][(InSpec /\ Current.skip)
          => /\ heap' = heap
             /\ pc' = "run"
             /\ fi' = fi + 1
             /\ passed' = passed + 1
             /\ log'[Len(log')].status = "skipped"]_vars

\* a skipped call that would have assigned to the constant MAX was logged,
\* and MAX is still 9
C8_Witness ==
    \E i \in 1..Len(log) :
        /\ log[i].status = "skipped"
        /\ log[i].feature.call
        /\ log[i].feature.assign = MaxP
        /\ fi = log[i].index + 1
        /\ StoredAt(log[i].spec, MaxP).v = Num(<<"9">>)

---------------------------------------------------------------------------
(* Properties of parseFeature *)

\* the groups of the key of the entry handed to parseFeature
EntryMatch == MatchLeft(Camelize(entry.left))

\* C9: for a key that names an assign path or a property, parseFeature
\* returns a feature that is a call exactly when a property is present, the
\* key has no trailing `==` and the right-hand side is a list; any other
\* feature has no args, no kwargs, and the right-hand side as its expected
\* value.
C9_CallIffListOperand ==
    (pc = "parsed" /\ EntryMatch.ok
        /\ (EntryMatch.assign # <<>> \/ EntryMatch.property # <<>>))
      => /\ parsed.ok
         /\ parsed.f.call =
                (/\ EntryMatch.property # <<>>
                 /\ ~EndsWith(EntryMatch.property, <<"=","=">>)
                 /\ entry.right.k = "list")
         /\ ~parsed.f.call =>
                /\ parsed.f.args = <<>>
                /\ parsed.f.kwargs = <<>>
                /\ parsed.f.result = entry.right

---------------------------------------------------------------------------
(* Properties of the runner: parseSpecs, testSpecs and testSpec *)

\* the calls of testFeature logged for specification s
EntriesOf(s) == {i \in 1..Len(log) : log[i].spec = s}

\* call j follows call i in the order of the features: the next feature of
\* the same specification, or the first of the next one after the last
Follows(i, j) ==
    \/ /\ log[j].spec = log[i].spec
       /\ log[j].index = log[i].index + 1
    \/ /\ log[j].spec = log[i].spec + 1
       /\ log[i].index = Len(specs[log[i].spec].features)
       /\ log[j].index = 1

\* the calls are made in the order of the features, one call per feature
InDocumentOrder ==
    /\ log # <<>> => log[1].spec = 1 /\ log[1].index = 1
    /\ \A j \in 1..Len(log) :
           /\ log[j].feature = specs[log[j].spec].features[log[j].index]
           /\ j > 1 => Follows(j - 1, j)

\* the earlier calls of the specification of call j that bound name
Binders(j, name) ==
    {i \in 1..(j - 1) :
        /\ log[i].spec = log[j].spec
        /\ ~log[i].feature.skip
        /\ log[i].status # "raised"
        /\ log[i].feature.assign = name}

Latest(S) == CHOOSE i \in S : \A k \in S : k <= i

\* name is bound when call j is made: by an earlier call or by the package
BoundAt(j, name) ==
    \/ Binders(j, name) # {}
    \/ HasKey(ModuleExports(specs[log[j].spec].package), name)

\* the value name holds when call j is made
ValueAt(j, name) ==
    IF Binders(j, name) # {} THEN log[Latest(Binders(j, name))].result
    ELSE Lookup(ModuleExports(specs[log[j].spec].package), name)

\* the names the markers of a feature refer to
MarkersOf(f) ==
    {f.args[p].items[1].key : p \in {q \in 1..Len(f.args) : IsMarker(f.args[q])}}
    \cup {f.kwargs[p].val.items[1].key :
             p \in {q \in 1..Len(f.kwargs) : IsMarker(f.kwargs[q].val)}}
    \cup (IF IsMarker(f.result) THEN {f.result.items[1].key} ELSE {})

\* the object of the kwargs passed by call j: the argument after the
\* positional ones
KwargsOf(j) == heap[log[j].args[Len(log[j].feature.args) + 1].id].items

\* call j was given, for each marker, the value its name held at the call
ResolvedAt(j) ==
    /\ \A p \in 1..Len(log[j].feature.args) :
           IsMarker(log[j].feature.args[p]) =>
               log[j].args[p] = ValueAt(j, log[j].feature.args[p].items[1].key)
    /\ \A p \in 1..Len(log[j].feature.kwargs) :
           IsMarker(log[j].feature.kwargs[p].val) =>
               Lookup(KwargsOf(j), log[j].feature.kwargs[p].key)
                   = ValueAt(j, log[j].feature.kwargs[p].val.items[1].key)
    /\ IsMarker(log[j].feature.result) =>
           log[j].expected = ValueAt(j, log[j].feature.result.items[1].key)

\* C5: the features of a specification run in document order, and a marker
\* in the args, kwargs or expected value of a feature resolves to the value
\* the latest earlier assignment of the specification bound to its name (the
\* export of the package when there is none); a name nothing has bound yet
\* does not resolve, whatever a later feature binds.
C5_LatestEarlierBinding ==
    /\ InDocumentOrder
    /\ \A j \in 1..Len(log) :
           ~log[j].feature.skip =>
               IF \A name \in MarkersOf(log[j].feature) : BoundAt(j, name)
               THEN /\ log[j].status = "raised" => log[j].err = "ConstantError"
                    /\ ResolvedAt(j)
               ELSE log[j].status = "raised" /\ log[j].err = "ReferenceError"

\* x was bound twice to different values, and a later call was given the
\* second one, as its argument and in its kwargs
C5_Witness ==
    \E i, j, k \in 1..Len(log) :
        /\ i < j /\ j < k
        /\ log[i].spec = log[k].spec
        /\ Binders(k, <<"x">>) = {i, j}
        /\ log[i].result # log[j].result
        /\ log[k].feature = ParseEntry(UseX).f
        /\ log[k].args[1] = log[j].result
        /\ Lookup(KwargsOf(k), <<"k">>) = log[j].result
        /\ log[k].status = "passed"

\* the run is over: testSpecs returned, or rejected after it had started
RunOver == pc = "done" \/ (pc = "rejected" /\ specs # <<>>)

\* C6: testSpecs runs testSpec on every specification, whatever happened in
\* the earlier ones, and returns the conjunction of their verdicts.
C6_EverySpecRuns ==
    RunOver =>
        /\ \A s \in 1..Len(specs) : EntriesOf(s) # {}
        /\ pc = "done" =>
               /\ Len(verdicts) = Len(specs)
               /\ success = (\A s \in 1..Len(verdicts) : verdicts[s])

\* C7: testSpec calls testFeature for every feature, a failed feature
\* stopping nothing, and returns true exactly when no feature failed,
\* skipped features counting as passed; the run is a success exactly when
\* no feature of any specification failed.
C7_VerdictIffNoneFailed ==
    /\ \A s \in 1..Len(verdicts) :
           /\ Cardinality(EntriesOf(s)) = Len(specs[s].features)
           /\ verdicts[s] =
                  (\A i \in EntriesOf(s) : log[i].status \in {"passed", "skipped"})
    /\ \A i \in 1..Len(log) :
           log[i].status = "failed" =>
               /\ pc = "rejected" => i < Len(log)
               /\ i < Len(log) => Follows(i, i + 1)
    /\ pc = "done" =>
           success = (\A i \in 1..Len(log) : log[i].status # "failed")

\* a feature failed after another had passed, a later feature of its
\* specification was still run, and skipped, and the specification and the
\* run were reported failed
C7_Witness ==
    /\ pc = "done"
    /\ ~success
    /\ \E i, j, k \in 1..Len(log) :
           /\ j < i /\ i < k
           /\ log[i].spec = log[k].spec
           /\ log[i].status = "failed"
           /\ log[j].status = "passed"
           /\ log[k].status = "skipped"
           /\ ~verdicts[log[i].spec]
           /\ Cardinality({m \in EntriesOf(log[i].spec) :
                              log[m].status = "failed"}) = 1

\* the documents that declare the package
DocsOf(package) == {d \in 1..Len(docs) : docs[d][1].right = RStr(package)}

\* the features of the documents of D, in the order of the documents
RECURSIVE FeaturesOf(_, _)
FeaturesOf(D, d) ==
    IF d > Len(docs) THEN <<>>
    ELSE (IF d \in D THEN [i \in 1..Len(docs[d]) |-> ParseEntry(docs[d][i]).f]
          ELSE <<>>) \o FeaturesOf(D, d + 1)

\* C10: documents that declare the same package give one specification with
\* the features of all of them in order, and testSpec on it runs every one
\* of these features and returns a verdict.
C10_MergedSpecRuns ==
    \A s \in 1..Len(specs) :
        Cardinality(DocsOf(specs[s].package)) >= 2 =>
            /\ specs[s].features = FeaturesOf(DocsOf(specs[s].package), 1)
            /\ (pc = "done" \/ (pc = "rejected" /\ si = s)) =>
                   /\ s <= Len(verdicts)
                   /\ Cardinality(EntriesOf(s)) = Len(specs[s].features)

===========================================================================
